---- MODULE Spec2Model ----
(***************************************************************************)
(* A model of the shift-handover agent of ikalpaktsis/ai_shift_assistant:  *)
(* the orchestration loop of ShiftOrchestratorAgent.run (src/app/agent.py),*)
(* the tool router _execute_tool, the deterministic ticket tools           *)
(* (src/app/tools.py) and the memory store (src/app/memory.py).            *)
(*                                                                         *)
(* Python values are tagged records: the field t names the Python type.    *)
(* None is [t |-> "none"], a list is [t |-> "list", v |-> <<...>>], a      *)
(* string is [t |-> "str", s |-> "..."], a number is [t |-> "num", n |->   *)
(* ..] and every dict is a record with t = "dict" and its keys as fields   *)
(* (the empty dict {} has no other field).  A key that a mapping of call   *)
(* arguments does not hold is marked Absent.                               *)
(***************************************************************************)
EXTENDS Integers, Sequences, FiniteSets, TLC

VARIABLES
    pc,          \* position of run(): idle, loop, dispatch, closure, update, save, email, returned, raised
    max_steps,   \* self.max_steps, the configured step budget
    srs,         \* run()'s local srs, the normalised batch
    shift_id,    \* run()'s parameter shift_id
    notify,      \* run()'s parameters notify_email / email_to: [notify_email, email_to]
    memory,      \* run()'s local memory (loaded at the start, updated in place by update_memory)
    loaded,      \* the document as load_memory returned it at the start of the run
    state,       \* the RunState dictionary
    step,        \* iterations of `for _ in range(self.max_steps)` started so far
    chatCalls,   \* number of llm.chat requests made by this run
    ncalls,      \* length of tool_calls of the reply being dispatched
    idx,         \* number of calls of that reply already dispatched
    lastCall,    \* the invocation dispatched last: [name, arguments]
    lastResult,  \* what _execute_tool returned for it (the content of the tool message)
    toolMsgs,    \* tool messages appended to `messages` since the latest assistant message
    file,        \* the document stored at self.memory_path
    report,      \* run()'s local report
    memory_saved,\* run()'s local memory_saved
    returned,    \* the value run() returned
    raisedBy,    \* what raised the exception that escaped run()
    emailsSent,  \* invocations of send_email made by this run
    updates,     \* number of update_memory calls applied to the document so far
    escSeen,     \* number of escalation entries ever appended to the document
    default_memory, \* the module's DEFAULT_MEMORY object: doc is its value, aliased
                 \* tells whether the document load_memory returned last is that
                 \* very object and not a copy of it
    tool_calls,  \* the invocations of the reply in hand, when the reply is given up front
    transcript,  \* the tool messages appended for that reply: [role, tool_call_id, name, content]
    response     \* the free text of the reply that proposed no invocation

vars == <<pc, max_steps, default_memory, tool_calls, transcript, response, srs,
          shift_id, notify, memory, loaded, state, step, chatCalls,
          ncalls, idx, lastCall, lastResult, toolMsgs, file, report,
          memory_saved, returned, raisedBy, emailsSent, updates, escSeen>>

-----------------------------------------------------------------------------
(* Bounds of the model *)

\* largest configured step budget explored
MaxSteps == 2
\* largest number of invocations in one backend reply
MaxCalls == 2
\* largest number of send_email invocations the backend proposes in one run
MaxEmails == 1
\* number of successive memory updates explored by SpecMem
MaxUpdates == 52

\* updates of a loaded document tried on the memory store alone
MaxStoreUpdates == 2

\* invocations in one reply when the reply is followed call by call
MaxReply == 3
\* largest number of escalations one update appends in SpecMem
MaxEsc == 5
\* longest batch the tools are called on directly in SpecFn
MaxBatch == 3
\* largest minimum-recurrence threshold tried in SpecFn
MaxRecurrence == 4

-----------------------------------------------------------------------------
(* Python values *)

NoneV == [t |-> "none"]
Absent == [t |-> "absent"]
EmptyDict == [t |-> "dict"]
Str(s) == [t |-> "str", s |-> s]
Num(n) == [t |-> "num", n |-> n]
List(v) == [t |-> "list", v |-> v]

\* Python truthiness, as used by `x or y` and `if not x`
Truthy(x) ==
    CASE x.t = "none" -> FALSE
      [] x.t = "absent" -> FALSE
      [] x.t = "list" -> Len(x.v) > 0
      [] x.t = "str" -> x.s # ""
      [] x.t = "num" -> x.n # 0
      [] x.t = "dict" -> DOMAIN x # {"t"}
      [] OTHER -> TRUE

\* d.get(key, default) on a dict value: the field when present, else the default
DictGet(d, key, default) == IF key \in DOMAIN d THEN d[key] ELSE default

\* a trim that keeps the oldest entries, seq[:n]
FirstN(seq, n) ==
    IF Len(seq) <= n THEN seq ELSE SubSeq(seq, 1, n)

\* seq[-n:]
LastN(seq, n) ==
    IF Len(seq) <= n THEN seq ELSE SubSeq(seq, Len(seq) - n + 1, Len(seq))

-----------------------------------------------------------------------------
(* Tickets.  A ticket is a dict; the model keeps the fields the tools read. *)
(* status and priority are raw strings ("" also stands for a missing       *)
(* field, which _norm maps to "" as well); hours_since is now minus the    *)
(* parsed last_update in hours, NoAge when last_update is missing or does  *)
(* not parse; words is the set of keywords that occur in the normalised    *)
(* title, description and notes.                                           *)

NoAge == -1

\* a last_update that is there and that datetime.fromisoformat rejects
BadStamp == -2

Ticket(id, status, priority, hours, flag, words, reopen, site, node) ==
    [t |-> "dict", id |-> id, status |-> status, priority |-> priority,
     hours_since |-> hours, escalation_flag |-> flag, words |-> words,
     reopen_count |-> reopen, site |-> site, node |-> node]

T1 == Ticket("SR1", "Open", "P1", 48, FALSE, {}, 0, "A", "")
T2 == Ticket("SR2", " CLOSED ", "low", 30, TRUE, {"sla"}, 1, "", "A")
T3 == Ticket("SR3", "Pending Vendor", "", NoAge, FALSE, {"vendor"}, 0, "B", "")
T4 == Ticket("SR4", "", "low", 12, FALSE, {}, 0, "", "")
T5 == Ticket("SR5", "Resolved", "high", 100, TRUE, {"escalat", "customer"}, 2, " A ", "")
T6 == Ticket("SR6", "Open", "", 9, FALSE, {"await"}, 0, "  ", "B")
T7 == Ticket("SR7", "Open", "low", BadStamp, FALSE, {}, 0, "", "")
T8 == Ticket("SR8", "Awaiting Parts", "low", 2, FALSE, {}, 0, "", "")

\* _norm: (text or "").strip().lower(), on the strings of the model
Norm(text) ==
    CASE text = "Open" -> "open"
      [] text = " CLOSED " -> "closed"
      [] text = "Pending Vendor" -> "pending vendor"
      [] text = "Resolved" -> "resolved"
      [] text = "Awaiting Parts" -> "awaiting parts"
      [] text = "P1" -> "p1"
      [] OTHER -> text

\* `word in text` for the normalised strings of the model
Contains(text, word) ==
    \/ text = word
    \/ text = "pending vendor" /\ word \in {"pending", "vendor"}
    \/ text = "awaiting parts" /\ word \in {"await", "awaiting", "waiting", "parts"}

CLOSED_STATUSES == {"closed", "resolved", "done", "completed", "cancelled"}
HIGH_PRIORITIES == {"p1", "p2", "critical", "high", "urgent"}

IsClosed(status) == Norm(status) \in CLOSED_STATUSES

TicketReason(sr) ==
    LET status == Norm(sr.status) IN
    IF Contains(status, "pending") \/ Contains(status, "waiting") THEN "Pending response"
    ELSE IF "vendor" \in sr.words THEN "Pending vendor"
    ELSE IF "customer" \in sr.words THEN "Pending customer"
    ELSE IF "waiting" \in sr.words \/ "await" \in sr.words THEN "Waiting action"
    ELSE "Needs follow-up"

\* analyze_tickets: total and open count (the histograms and the average
\* age are functions of the same batch and are not read by any other tool)
AnalyzeTickets(batch) ==
    LET Open(sr) == ~IsClosed(IF Norm(sr.status) = "" THEN "unknown" ELSE Norm(sr.status))
    IN [t |-> "dict", total |-> Len(batch), open |-> Len(SelectSeq(batch, Open))]

\* _parse_datetime(sr.get("last_update")): None for a missing value and for
\* one that does not parse, the time otherwise (kept as hours before now)
ParseDatetime(hours_since) ==
    IF hours_since \in {NoAge, BadStamp} THEN NoneV
    ELSE [t |-> "datetime", hours_ago |-> hours_since]

\* a staleness test that takes an unknown age for an old one
StaleUnknownToo(sr, hours) ==
    ParseDatetime(sr.hours_since).t = "none" \/ sr.hours_since >= hours

\* `if last_update:` and `hours_since >= hours`
Stale(sr, hours) ==
    /\ Truthy(ParseDatetime(sr.hours_since))
    /\ ParseDatetime(sr.hours_since).hours_ago >= hours

\* a follow-up test that does not look at whether the ticket is closed
NeedsFollowupClosedToo(sr, followup_hours) ==
    \/ Stale(sr, followup_hours)
    \/ Contains(Norm(sr.status), "pending")
    \/ Contains(Norm(sr.status), "waiting")

NeedsFollowup(sr, followup_hours) ==
    /\ ~IsClosed(sr.status)
    /\ \/ Stale(sr, followup_hours)
       \/ Contains(Norm(sr.status), "pending")
       \/ Contains(Norm(sr.status), "waiting")

Escalates(sr, sla_hours) ==
    \/ sr.escalation_flag
    \/ Norm(sr.priority) \in HIGH_PRIORITIES
    \/ "sla" \in sr.words
    \/ "breach" \in sr.words
    \/ "escalat" \in sr.words
    \/ Stale(sr, sla_hours)

RECURSIVE MapSeq(_, _)
\* [f[x] for x in seq]
MapSeq(seq, f) ==
    IF seq = <<>> THEN <<>> ELSE <<f[Head(seq)]>> \o MapSeq(Tail(seq), f)

\* classify_tickets
ClassifyTickets(batch, followup_hours, sla_hours) ==
    LET Open(sr) == ~IsClosed(sr.status)
        Follow(sr) == NeedsFollowup(sr, followup_hours)
        Esc(sr) == Escalates(sr, sla_hours)
        Reopened(sr) == sr.reopen_count # 0
        Tickets == {batch[i] : i \in DOMAIN batch}
        open_entry == [sr \in Tickets |-> [id |-> sr.id, status |-> sr.status]]
        fu_entry == [sr \in Tickets |->
                       [id |-> sr.id, status |-> sr.status,
                        hours_since_update |->
                            IF Truthy(ParseDatetime(sr.hours_since))
                            THEN sr.hours_since ELSE NoAge,
                        reason |-> TicketReason(sr)]]
        esc_entry == [sr \in Tickets |->
                       [id |-> sr.id, priority |-> sr.priority,
                        reason |-> "SLA risk or high priority"]]
        rec_entry == [sr \in Tickets |-> [id |-> sr.id, reason |-> "Repeated reopen"]]
    IN [t |-> "dict",
        open_issues |-> MapSeq(SelectSeq(batch, Open), open_entry),
        follow_up_required |-> MapSeq(SelectSeq(batch, Follow), fu_entry),
        escalations |-> MapSeq(SelectSeq(batch, Esc), esc_entry),
        recurrent |-> MapSeq(SelectSeq(batch, Reopened), rec_entry)]

-----------------------------------------------------------------------------
(* Sites and the memory document *)

Sites == {"A", "B", "Z"}
\* the site identifiers in string order, for sorted()
SiteOrder == <<"A", "B", "Z">>

\* str(site).strip(), on the site strings of the model
StripKey(text) ==
    CASE text = " A " -> "A"
      [] text = "  " -> ""
      [] OTHER -> text

\* a site key that prefers the node field
SiteKeyNodeFirst(sr) == StripKey(IF sr.node # "" THEN sr.node ELSE sr.site)

\* site = sr.get("site") or sr.get("node"), then site_key = str(site).strip();
\* "" when the ticket has neither field or the chosen one is blank
SiteKey(sr) == StripKey(IF sr.site # "" THEN sr.site ELSE sr.node)

\* DEFAULT_MEMORY
DEFAULT_MEMORY ==
    [t |-> "dict", past_shifts |-> <<>>, recurring_sites |-> [s \in Sites |-> 0],
     escalations |-> <<>>, stats |-> [total_shifts |-> 0, total_srs |-> 0]]

\* what the path holds before the first save
Missing == [t |-> "missing"]

\* a file whose text json.load cannot parse
Corrupt == [t |-> "corrupt"]

\* an object handed out under a second name: whoever changes the one
\* changes the other
SameObject(obj) == [doc |-> obj.doc, aliased |-> TRUE]

\* deepcopy(obj): the same contents in an object of its own
DeepCopy(obj) == [doc |-> obj.doc, aliased |-> FALSE]

\* a load that forgets what is stored
LoadMemoryDefault(stored) == DEFAULT_MEMORY

\* load_memory(path), for a path that is given: the stored document, the
\* default when there is none
LoadMemory(stored) ==
    IF stored.t \in {"missing", "corrupt"} THEN DEFAULT_MEMORY ELSE stored

\* the branches of load_memory that hand out a copy of the default: no
\* path, no file, a file that does not parse
Defaulting(path, stored) ==
    ~Truthy(path) \/ stored.t \in {"missing", "corrupt"}

\* load_memory(path): no path, no document.  json.dump followed by json.load
\* gives back every value a document is made of (mappings with string keys,
\* lists, strings, numbers, null) as it was, so the stored text is kept as
\* the document it encodes.
LoadMemoryStore(path, stored) ==
    IF ~Truthy(path) THEN DEFAULT_MEMORY ELSE LoadMemory(stored)

\* save_memory(path, memory): what it returns and what the path holds after
SaveMemoryStore(path, mem, stored) ==
    IF ~Truthy(path) THEN [saved |-> FALSE, file |-> stored]
    ELSE [saved |-> TRUE, file |-> mem]

\* a recurrence test that asks for exactly the threshold
MeetsRecurrenceExactly(count, min_recurrence) == count = min_recurrence

\* count >= min_recurrence
MeetsRecurrence(count, min_recurrence) == count >= min_recurrence

\* detect_persistent_sites
DetectPersistentSites(batch, mem, min_recurrence) ==
    LET Keyed(sr) == SiteKey(sr) # ""
        keyed == SelectSeq(batch, Keyed)
        keys == {SiteKey(keyed[i]) : i \in DOMAIN keyed}
        counts == [k \in keys |->
                     LET Same(sr) == SiteKey(sr) = k IN Len(SelectSeq(keyed, Same))]
        Historical(k) ==
            IF Truthy(mem) /\ "recurring_sites" \in DOMAIN mem
            THEN mem.recurring_sites[k] ELSE 0
        persistent == {k \in keys : MeetsRecurrence(counts[k], min_recurrence)
                                      \/ MeetsRecurrence(Historical(k), min_recurrence)}
        InPersistent(k) == k \in persistent
    IN [t |-> "dict", persistent_sites |-> SelectSeq(SiteOrder, InPersistent),
        current_counts |-> counts]

\* create_action_list raises AttributeError when classifications has no .get
CreateActionListRaises(classifications) == classifications.t # "dict"

\* an action list that puts the follow-ups first
CreateActionListFollowUpsFirst(classifications) ==
    LET escs == DictGet(classifications, "escalations", <<>>)
        fus == DictGet(classifications, "follow_up_required", <<>>)
        esc_action == [i \in DOMAIN escs |->
            [action |-> "Escalate", sr_id |-> escs[i].id,
             priority |-> IF escs[i].priority # "" THEN escs[i].priority ELSE "high"]]
        fu_action == [i \in DOMAIN fus |->
            [action |-> "Follow up", sr_id |-> fus[i].id, reason |-> fus[i].reason,
             priority |-> "medium"]]
        actions == fu_action \o esc_action
    IN [t |-> "dict",
        actions |-> IF actions = <<>>
                    THEN <<[action |-> "No critical actions detected.", priority |-> "low"]>>
                    ELSE actions]

\* create_action_list
CreateActionList(classifications) ==
    LET escs == DictGet(classifications, "escalations", <<>>)
        fus == DictGet(classifications, "follow_up_required", <<>>)
        esc_action == [i \in DOMAIN escs |->
            [action |-> "Escalate", sr_id |-> escs[i].id,
             priority |-> IF escs[i].priority # "" THEN escs[i].priority ELSE "high"]]
        fu_action == [i \in DOMAIN fus |->
            [action |-> "Follow up", sr_id |-> fus[i].id, reason |-> fus[i].reason,
             priority |-> "medium"]]
        actions == esc_action \o fu_action
    IN [t |-> "dict",
        actions |-> IF actions = <<>>
                    THEN <<[action |-> "No critical actions detected.", priority |-> "low"]>>
                    ELSE actions]

\* outcomes of llm.generate_text: some text, blank text, an exception
GenOutcomes == {"text", "blank", "raise"}

\* generate_summary raises when building the payload calls .get on None, or
\* when the fallback template calls stats.get on None
GenerateSummaryRaises(stats, classifications, action_list, gen) ==
    \/ classifications.t # "dict"
    \/ action_list.t # "dict"
    \/ gen # "text" /\ stats.t # "dict"

\* the fallback template of generate_summary
FallbackSummary(stats, classifications, sid) ==
    [t |-> "str", s |-> "Shift summary",
     shift_id |-> IF Truthy(sid) THEN sid.s ELSE "",
     total |-> DictGet(stats, "total", 0),
     open |-> DictGet(stats, "open", 0),
     escalations |-> Len(DictGet(classifications, "escalations", <<>>))]

\* generate_summary
GenerateSummary(stats, classifications, persistent_sites, action_list, sid, gen) ==
    [t |-> "dict",
     summary |-> IF gen = "text" THEN Str("LLM summary")
                 ELSE FallbackSummary(stats, classifications, sid)]

\* memory["past_shifts"][-50:]
PAST_SHIFTS_CAP == 50
\* memory["escalations"][-200:]
ESCALATIONS_CAP == 200

\* update_memory
UpdateMemory(mem, rep, classifications, persistent_sites, stats) ==
    LET m == IF Truthy(mem) THEN mem ELSE DEFAULT_MEMORY
        shift_record == [shift_id |-> rep.shift_id, summary |-> rep.summary,
                         stats |-> stats]
    IN [t |-> "dict",
        past_shifts |-> LastN(Append(m.past_shifts, shift_record), PAST_SHIFTS_CAP),
        recurring_sites |->
            [s \in Sites |->
                m.recurring_sites[s]
                + Len(SelectSeq(persistent_sites, LAMBDA x : x = s))],
        escalations |->
            LastN(m.escalations \o DictGet(classifications, "escalations", <<>>),
                  ESCALATIONS_CAP),
        stats |-> [total_shifts |-> m.stats.total_shifts + 1,
                   total_srs |-> m.stats.total_srs + DictGet(stats, "total", 0)]]

-----------------------------------------------------------------------------
(* Invocation arguments and the tool router *)

ArgKeys == {"srs", "followup_hours", "sla_hours", "memory", "min_recurrence",
            "classifications", "stats", "persistent_sites", "action_list",
            "shift_id", "report", "to", "subject", "smtp_settings", "memory_path"}

\* a mapping of arguments that holds no key
NoArgs == [k \in ArgKeys \cup {"t"} |-> IF k = "t" THEN "dict" ELSE Absent]
\* a mapping of arguments that holds one key
OneArg(key, value) == [NoArgs EXCEPT ![key] = value]

\* The argument blob of a proposed invocation (call.get("arguments")):
\* absent, already a mapping, a string that decodes to a mapping, a string
\* that decodes to some other JSON value, a string that does not decode.
RawNone == [k |-> "none"]
RawDict(m) == [k |-> "dict", v |-> m]
RawJson(v) == [k |-> "json", v |-> v]
RawUndecodable == [k |-> "undecodable"]

\* _parse_args: json.loads returns whatever the string encodes
ParseArgs(raw_args) ==
    CASE raw_args.k = "none" -> NoArgs
      [] raw_args.k = "dict" -> raw_args.v
      [] raw_args.k = "json" -> raw_args.v
      [] OTHER -> NoArgs

\* args.get(key)
ArgGet(args, key) == IF args[key].t = "absent" THEN NoneV ELSE args[key]
\* args.get(key, default)
ArgGetDefault(args, key, default) ==
    IF args[key].t = "absent" THEN default ELSE args[key]
\* a router that takes a supplied argument even when it is empty
ArgOrSupplied(args, key, fallback) ==
    IF args[key].t = "absent" THEN fallback ELSE args[key]

\* args.get(key) or fallback
ArgOr(args, key, fallback) ==
    IF Truthy(ArgGet(args, key)) THEN args[key] ELSE fallback

\* self.followup_hours, self.sla_hours, self.memory_path as configured by
\* build_agent, and the default min_recurrence
FOLLOWUP_HOURS == 8
SLA_HOURS == 24
MIN_RECURRENCE == 2
MEMORY_PATH == Str("data/memory.json")

ToolNames == {"analyze_tickets", "classify_tickets", "detect_persistent_sites",
              "create_action_list", "generate_summary", "send_email",
              "save_memory", "load_memory"}

\* outcomes of send_email: settings missing, sent, transport failure
MailOutcomes == {"missing", "sent", "failed"}

\* send_email
SendEmail(rep, to, mail) ==
    [t |-> "dict", sent |-> mail = "sent", message |-> mail, to |-> to]

\* the state dictionary run() starts with
InitialState(batch, sid, mem) ==
    [srs |-> List(batch), shift_id |-> sid, memory |-> mem, stats |-> NoneV,
     classifications |-> NoneV, persistent_sites |-> NoneV, action_list |-> NoneV,
     summary |-> NoneV, email |-> NoneV, report |-> Absent]

\* what a dispatch leaves behind: whether it raised, the state dictionary,
\* the returned result, the stored document, the number of emails sent
Outcome(raised, st, result, stored, mails) ==
    [raised |-> raised, state |-> st, result |-> result, file |-> stored,
     mails |-> mails]

Raise(st, stored) == Outcome(TRUE, st, NoneV, stored, 0)

\* a router that raises on a name it does not know
UnknownToolRaises(name, st, stored) == Raise(st, stored)

\* the last line of _execute_tool: no handler has the name
UnknownTool(name, st, stored) ==
    Outcome(FALSE, st, [t |-> "dict", error |-> "Unknown tool"], stored, 0)

\* _execute_tool(name, args, state); gen and mail are the outcomes of the
\* backend text call and of the mail transport, stored is the document at
\* self.memory_path
ExecuteTool(name, args, st, gen, mail, stored) ==
    IF name \notin ToolNames THEN UnknownTool(name, st, stored)
    ELSE IF args.t # "dict" THEN Raise(st, stored)
    ELSE CASE name = "analyze_tickets" ->
            LET batch == ArgOr(args, "srs", st.srs)
                result == AnalyzeTickets(batch.v)
            IN Outcome(FALSE, [st EXCEPT !.stats = result], result, stored, 0)
      [] name = "classify_tickets" ->
            LET batch == ArgOr(args, "srs", st.srs)
                followup_hours == ArgGetDefault(args, "followup_hours", Num(FOLLOWUP_HOURS))
                sla_hours == ArgGetDefault(args, "sla_hours", Num(SLA_HOURS))
                result == ClassifyTickets(batch.v, followup_hours.n, sla_hours.n)
            IN Outcome(FALSE, [st EXCEPT !.classifications = result], result, stored, 0)
      [] name = "detect_persistent_sites" ->
            LET batch == ArgOr(args, "srs", st.srs)
                mem == ArgOr(args, "memory", st.memory)
                min_recurrence == ArgGetDefault(args, "min_recurrence", Num(MIN_RECURRENCE))
                result == DetectPersistentSites(batch.v, mem, min_recurrence.n)
            IN Outcome(FALSE, [st EXCEPT !.persistent_sites = result], result, stored, 0)
      [] name = "create_action_list" ->
            LET classifications == ArgOr(args, "classifications", st.classifications)
                result == CreateActionList(classifications)
            IN IF CreateActionListRaises(classifications) THEN Raise(st, stored)
               ELSE Outcome(FALSE, [st EXCEPT !.action_list = result], result, stored, 0)
      [] name = "generate_summary" ->
            LET stats == ArgOr(args, "stats", st.stats)
                classifications == ArgOr(args, "classifications", st.classifications)
                persistent_sites == ArgOr(args, "persistent_sites", st.persistent_sites)
                action_list == ArgOr(args, "action_list", st.action_list)
                sid == ArgOr(args, "shift_id", st.shift_id)
                result == GenerateSummary(stats, classifications, persistent_sites,
                                          action_list, sid, gen)
            IN IF GenerateSummaryRaises(stats, classifications, action_list, gen)
               THEN Raise(st, stored)
               ELSE Outcome(FALSE, [st EXCEPT !.summary = result.summary], result,
                            stored, 0)
      [] name = "send_email" ->
            LET rep == ArgOr(args, "report",
                             IF st.report.t = "absent" THEN EmptyDict ELSE st.report)
                result == SendEmail(rep, ArgGet(args, "to"), mail)
            IN Outcome(FALSE, [st EXCEPT !.email = result], result, stored, 1)
      [] name = "save_memory" ->
            LET mem == ArgOr(args, "memory", st.memory)
                memory_path == ArgOr(args, "memory_path", MEMORY_PATH)
                result == [t |-> "dict", saved |-> TRUE, path |-> memory_path]
            IN Outcome(FALSE, st, result,
                       IF memory_path = MEMORY_PATH THEN mem ELSE stored, 0)
      [] name = "load_memory" ->
            LET memory_path == ArgOr(args, "memory_path", MEMORY_PATH)
                result == [t |-> "dict",
                           memory |-> LoadMemory(IF memory_path = MEMORY_PATH
                                                 THEN stored ELSE Missing)]
            IN Outcome(FALSE, [st EXCEPT !.memory = result.memory], result, stored, 0)

-----------------------------------------------------------------------------
(* Inputs: batches, run parameters, and what the backend may propose *)

\* explicit argument values a backend may send
AltSrs == List(<<T1>>)
AltClassifications == ClassifyTickets(<<T3>>, FOLLOWUP_HOURS, SLA_HOURS)
AltStats == [t |-> "dict", total |-> 7, open |-> 5]
AltMemory == [DEFAULT_MEMORY EXCEPT !.recurring_sites["B"] = 5]
AltActions == [t |-> "dict", actions |-> <<[action |-> "Call vendor", priority |-> "high"]>>]

ArgChoices ==
    {NoArgs,
     OneArg("srs", AltSrs), OneArg("srs", List(<<>>)),
     OneArg("followup_hours", Num(0)), OneArg("sla_hours", Num(10)),
     OneArg("min_recurrence", Num(1)),
     OneArg("memory", AltMemory), OneArg("memory", EmptyDict),
     OneArg("classifications", AltClassifications), OneArg("classifications", EmptyDict),
     OneArg("stats", AltStats), OneArg("stats", EmptyDict),
     OneArg("persistent_sites", List(<<"Z">>)), OneArg("persistent_sites", List(<<>>)),
     OneArg("action_list", AltActions), OneArg("action_list", EmptyDict),
     OneArg("shift_id", Str("S9")), OneArg("shift_id", Str("")),
     OneArg("memory_path", Str("other.json"))}

\* argument blobs: for strings, what json.loads makes of them
Blobs ==
    {RawNone, RawUndecodable, RawDict(NoArgs), RawJson(NoneV), RawJson(List(<<>>))}
    \cup {RawJson(m) : m \in ArgChoices}

Names == ToolNames \cup {"restart_router"}

\* every invocation the router is tried on
ProposedCalls == [name : Names, arguments : Blobs]

\* arguments with which generate_summary can run before anything else has
SummaryArgs ==
    [OneArg("classifications", AltClassifications) EXCEPT !.action_list = AltActions]

\* the invocations the backend proposes during a run: every operation name
\* without arguments and with a blob that decodes to a list, explicit
\* arguments for the analysis tools and for generate_summary, and a
\* document for save_memory
RunCalls ==
    [name : Names, arguments : {RawNone, RawJson(List(<<>>))}]
    \cup {[name |-> "analyze_tickets", arguments |-> RawJson(OneArg("srs", AltSrs))],
          [name |-> "classify_tickets",
           arguments |-> RawJson(OneArg("followup_hours", Num(0)))],
          [name |-> "classify_tickets",
           arguments |-> RawJson(OneArg("followup_hours", Num(100)))],
          [name |-> "generate_summary", arguments |-> RawJson(SummaryArgs)],
          [name |-> "save_memory",
           arguments |-> RawJson(OneArg("memory", DEFAULT_MEMORY))]}

\* the outcomes of the backend text call and of the mail transport that an
\* invocation can meet: only generate_summary calls the backend, only
\* send_email the transport
GenFor(name) == IF name = "generate_summary" THEN GenOutcomes ELSE {"text"}
MailFor(name) == IF name = "send_email" THEN {"missing", "sent"} ELSE {"missing"}

\* the runs explored: batch, shift id, notification parameters
RunInputs ==
    {<<<<>>, NoneV, [notify_email |-> FALSE, email_to |-> NoneV]>>,
     <<<<>>, Str("S1"), [notify_email |-> TRUE, email_to |-> NoneV]>>,
     <<<<T1, T2>>, Str("S1"), [notify_email |-> FALSE, email_to |-> NoneV]>>,
     <<<<T1, T2>>, NoneV, [notify_email |-> TRUE, email_to |-> NoneV]>>,
     <<<<T3, T4, T3>>, Str("S1"),
       [notify_email |-> FALSE, email_to |-> Str("noc@example.org")]>>,
     <<<<T3>>, Str("S1"), [notify_email |-> FALSE, email_to |-> NoneV]>>}

NoCall == [name |-> "", arguments |-> RawNone]

\* free text of a reply without invocations: None, blank, or some text
Contents == {NoneV, Str(""), Str("  "), Str("Handover text")}
\* a reply text taken as it is, blanks included
StripNothing(content) ==
    IF content.t = "none" THEN Str("") ELSE content

\* (content or "").strip()
Strip(content) ==
    IF content.t = "none" \/ content.s = "  " THEN Str("") ELSE content

-----------------------------------------------------------------------------
(* run() *)

\* a report of an empty batch without actions
EmptyReportNoActions(sid) ==
    [t |-> "dict", shift_id |-> sid,
     summary |-> Str("No SRs provided for this shift."),
     stats |-> [t |-> "dict", total |-> 0, open |-> 0],
     classifications |-> [t |-> "dict", open_issues |-> <<>>,
                          follow_up_required |-> <<>>, escalations |-> <<>>,
                          recurrent |-> <<>>],
     actions |-> <<>>,
     persistent_sites |-> <<>>]

\* run(), lines 155-167: the report of an empty batch
EmptyReport(sid) ==
    [t |-> "dict", shift_id |-> sid,
     summary |-> Str("No SRs provided for this shift."),
     stats |-> [t |-> "dict", total |-> 0, open |-> 0],
     classifications |-> [t |-> "dict", open_issues |-> <<>>,
                          follow_up_required |-> <<>>, escalations |-> <<>>,
                          recurrent |-> <<>>],
     actions |-> <<[action |-> "No actions required.", priority |-> "low"]>>,
     persistent_sites |-> <<>>]

\* a document left at the path by two earlier runs in which site B was persistent
PriorMemory ==
    LET rep == [shift_id |-> Str("S0"), summary |-> Str("LLM summary")]
        cls == ClassifyTickets(<<T3>>, FOLLOWUP_HOURS, SLA_HOURS)
        once == UpdateMemory(DEFAULT_MEMORY, rep, cls, <<"B">>, AnalyzeTickets(<<T3>>))
    IN UpdateMemory(once, rep, cls, <<"B">>, AnalyzeTickets(<<T3>>))

Init ==
    /\ pc = "idle"
    /\ max_steps \in 0..MaxSteps
    /\ default_memory = [doc |-> DEFAULT_MEMORY, aliased |-> FALSE]
    /\ tool_calls = <<>>
    /\ transcript = <<>>
    /\ response = NoneV
    /\ file \in {Missing, PriorMemory}
    /\ srs = <<>>
    /\ shift_id = NoneV
    /\ notify = [notify_email |-> FALSE, email_to |-> NoneV]
    /\ memory = NoneV
    /\ loaded = NoneV
    /\ state = InitialState(<<>>, NoneV, NoneV)
    /\ step = 0
    /\ chatCalls = 0
    /\ ncalls = 0
    /\ idx = 0
    /\ lastCall = NoCall
    /\ lastResult = NoneV
    /\ toolMsgs = 0
    /\ report = NoneV
    /\ memory_saved = FALSE
    /\ returned = NoneV
    /\ raisedBy = "nothing"
    /\ emailsSent = 0
    /\ updates = 0
    /\ escSeen = 0

\* run(), lines 140-176: normalise, load memory, seed the state; an empty
\* batch gets its fixed report and goes straight to the memory update
StartRun(batch, sid, ntf) ==
    /\ pc = "idle"
    /\ srs' = batch
    /\ shift_id' = sid
    /\ notify' = ntf
    /\ memory' = LoadMemory(file)
    /\ loaded' = LoadMemory(file)
    /\ state' = InitialState(batch, sid, LoadMemory(file))
    /\ IF batch = <<>>
       THEN report' = EmptyReport(sid) /\ pc' = "update"
       ELSE report' = report /\ pc' = "loop"
    /\ UNCHANGED <<max_steps, default_memory, tool_calls, transcript,
                   response, step, chatCalls, ncalls, idx, lastCall,
                   lastResult, toolMsgs, file, memory_saved, returned,
                   raisedBy, emailsSent, updates, escSeen>>

\* the early break of the loop: all five artifacts are truthy
AllReady(st) ==
    /\ Truthy(st.stats)
    /\ Truthy(st.classifications)
    /\ Truthy(st.persistent_sites)
    /\ Truthy(st.action_list)
    /\ Truthy(st.summary)

\* a loop bound that is off by one
RangeHasNextOffByOne(n, limit) == n <= limit

\* `for _ in range(self.max_steps)` has another iteration to give
RangeHasNext(n, limit) == n < limit

\* the loop ends: the range is used up, or the state is complete (the loop's
\* locals and the transcript are dead from here on and are cleared)
LoopExit ==
    /\ pc = "loop"
    /\ ~RangeHasNext(step, max_steps) \/ AllReady(state)
    /\ pc' = "closure"
    /\ lastCall' = NoCall
    /\ lastResult' = NoneV
    /\ ncalls' = 0
    /\ idx' = 0
    /\ toolMsgs' = 0
    /\ UNCHANGED <<loaded, max_steps, default_memory, tool_calls, transcript,
                   response, srs, shift_id, notify, memory, state, step,
                   chatCalls, file, report, memory_saved, returned, raisedBy,
                   emailsSent, updates, escSeen>>

\* llm.chat raises (transport error, timeout): run() has no handler
ChatRaises ==
    /\ pc = "loop"
    /\ RangeHasNext(step, max_steps) /\ ~AllReady(state)
    /\ step' = step + 1
    /\ chatCalls' = chatCalls + 1
    /\ pc' = "raised"
    /\ raisedBy' = "llm.chat"
    /\ UNCHANGED <<loaded, max_steps, default_memory, tool_calls, transcript,
                   response, srs, shift_id, notify, memory, state, ncalls,
                   idx, lastCall, lastResult, toolMsgs, file, report,
                   memory_saved, returned, emailsSent, updates, escSeen>>

\* the reply proposes no invocation: adopt its text as the summary, break
ChatText(raw) ==
    /\ pc = "loop"
    /\ RangeHasNext(step, max_steps) /\ ~AllReady(state)
    /\ step' = step + 1
    /\ chatCalls' = chatCalls + 1
    /\ response' = raw
    /\ state' = IF Truthy(Strip(raw)) /\ ~Truthy(state.summary)
                THEN [state EXCEPT !.summary = Strip(raw)]
                ELSE state
    /\ pc' = "closure"
    /\ lastCall' = NoCall
    /\ lastResult' = NoneV
    /\ ncalls' = 0
    /\ idx' = 0
    /\ toolMsgs' = 0
    /\ UNCHANGED <<loaded, max_steps, default_memory, tool_calls, transcript,
                   srs, shift_id, notify, memory, file, report, memory_saved,
                   returned, raisedBy, emailsSent, updates, escSeen>>

\* the reply proposes k invocations: the assistant message is appended
ChatCalls(k) ==
    /\ pc = "loop"
    /\ RangeHasNext(step, max_steps) /\ ~AllReady(state)
    /\ step' = step + 1
    /\ chatCalls' = chatCalls + 1
    /\ ncalls' = k
    /\ idx' = 0
    /\ toolMsgs' = 0
    /\ pc' = "dispatch"
    /\ UNCHANGED <<loaded, max_steps, default_memory, tool_calls, transcript,
                   response, srs, shift_id, notify, memory, state, lastCall,
                   lastResult, file, report, memory_saved, returned, raisedBy,
                   emailsSent, updates, escSeen>>

\* one turn of `for call in tool_calls`: decode the arguments, execute, and
\* append the tool message; an exception leaves run()
DispatchCall(call, gen, mail) ==
    /\ pc = "dispatch"
    /\ call.name = "send_email" => emailsSent < MaxEmails
    /\ LET out == ExecuteTool(call.name, ParseArgs(call.arguments), state, gen,
                              mail, file)
       IN /\ lastCall' = call
          /\ IF out.raised
             THEN /\ pc' = "raised"
                  /\ raisedBy' = "_execute_tool"
                  /\ UNCHANGED <<state, file, emailsSent, lastResult, toolMsgs, idx>>
             ELSE /\ state' = out.state
                  /\ file' = out.file
                  /\ emailsSent' = emailsSent + out.mails
                  /\ lastResult' = out.result
                  /\ toolMsgs' = toolMsgs + 1
                  /\ idx' = idx + 1
                  /\ pc' = IF idx + 1 = ncalls THEN "loop" ELSE "dispatch"
                  /\ UNCHANGED raisedBy
    /\ UNCHANGED <<loaded, max_steps, default_memory, response, srs, shift_id,
                   notify, memory, step, chatCalls, ncalls, report,
                   memory_saved, returned, updates, escSeen>>

\* one pass of the loop of lines 237-249 for some call of the reply, the
\* tool messages being counted in toolMsgs only
Dispatch(call, gen, mail) ==
    /\ DispatchCall(call, gen, mail)
    /\ UNCHANGED <<tool_calls, transcript>>

\* lines 251-279: compute what is still missing, in order, and assemble
\* the report; gen is the outcome of the backend text call, if one is made
\* (the reply in hand is dead from here on and is cleared)
\* a closure that takes every slot for empty
SlotAlwaysMissing(st, slot) == TRUE

\* `if not state.get(slot)`
SlotMissing(st, slot) == ~Truthy(st[slot])

Closure(gen) ==
    /\ pc = "closure"
    /\ LET s1 == IF SlotMissing(state, "stats")
                 THEN [state EXCEPT !.stats = AnalyzeTickets(srs)] ELSE state
           s2 == IF SlotMissing(s1, "classifications")
                 THEN [s1 EXCEPT !.classifications =
                          ClassifyTickets(srs, FOLLOWUP_HOURS, SLA_HOURS)]
                 ELSE s1
           s3 == IF SlotMissing(s2, "persistent_sites")
                 THEN [s2 EXCEPT !.persistent_sites =
                          DetectPersistentSites(srs, memory, MIN_RECURRENCE)]
                 ELSE s2
           s4 == IF SlotMissing(s3, "action_list")
                 THEN [s3 EXCEPT !.action_list = CreateActionList(s3.classifications)]
                 ELSE s3
           s5 == IF SlotMissing(s4, "summary")
                 THEN [s4 EXCEPT !.summary =
                          GenerateSummary(s4.stats, s4.classifications,
                                          s4.persistent_sites, s4.action_list,
                                          shift_id, gen).summary]
                 ELSE s4
           rep == [t |-> "dict", shift_id |-> shift_id, summary |-> s5.summary,
                   stats |-> s5.stats, classifications |-> s5.classifications,
                   actions |-> DictGet(s5.action_list, "actions", <<>>),
                   persistent_sites |->
                       DictGet(s5.persistent_sites, "persistent_sites", <<>>)]
       IN /\ report' = rep
          /\ state' = [s5 EXCEPT !.report = rep]
    /\ pc' = "update"
    /\ response' = NoneV
    /\ UNCHANGED <<loaded, max_steps, default_memory, tool_calls, transcript,
                   srs, shift_id, notify, memory, step, chatCalls, ncalls,
                   idx, lastCall, lastResult, toolMsgs, file, memory_saved,
                   returned, raisedBy, emailsSent, updates, escSeen>>

\* lines 168-174 and 281-287: update_memory on the loaded document
\* an update of whatever document the run state holds
MemoryInRunState(local_memory, st) == st.memory

\* the first argument of update_memory at lines 165 and 281: the local
\* `memory` of line 141, whatever state["memory"] has become
MemoryToUpdate(local_memory, st) == local_memory

UpdateStep ==
    /\ pc = "update"
    /\ memory' =
          IF srs = <<>>
          THEN UpdateMemory(MemoryToUpdate(memory, state), report,
                            report.classifications,
                            report.persistent_sites, report.stats)
          ELSE UpdateMemory(MemoryToUpdate(memory, state), report,
                            state.classifications,
                            DictGet(state.persistent_sites, "persistent_sites", <<>>),
                            state.stats)
    /\ updates' = updates + 1
    /\ escSeen' = escSeen + Len(DictGet(IF srs = <<>> THEN report.classifications
                                        ELSE state.classifications,
                                        "escalations", <<>>))
    /\ pc' = "save"
    /\ UNCHANGED <<loaded, max_steps, default_memory, tool_calls, transcript,
                   response, srs, shift_id, notify, state, step, chatCalls,
                   ncalls, idx, lastCall, lastResult, toolMsgs, file, report,
                   memory_saved, returned, raisedBy, emailsSent>>

\* lines 175 and 288: save_memory_store(self.memory_path, updated_memory)
SaveStep ==
    /\ pc = "save"
    /\ file' = SaveMemoryStore(MEMORY_PATH, memory, file).file
    /\ memory_saved' = SaveMemoryStore(MEMORY_PATH, memory, file).saved
    /\ pc' = "email"
    /\ UNCHANGED <<loaded, max_steps, default_memory, tool_calls, transcript,
                   response, srs, shift_id, notify, memory, state, step,
                   chatCalls, ncalls, idx, lastCall, lastResult, toolMsgs,
                   report, returned, raisedBy, emailsSent, updates, escSeen>>

\* a return that notifies before looking at the batch
EmailStepIgnoringBatch(mail) ==
    /\ pc = "email"
    /\ LET wanted == notify.notify_email \/ Truthy(notify.email_to)
           email_result == IF wanted THEN SendEmail(report, notify.email_to, mail)
                           ELSE NoneV
       IN /\ returned' = [t |-> "dict", report |-> report, email |-> email_result,
                          memory_updated |-> memory_saved]
          /\ emailsSent' = emailsSent + (IF wanted THEN 1 ELSE 0)
    /\ pc' = "returned"
    /\ UNCHANGED <<loaded, max_steps, default_memory, tool_calls, transcript,
                   response, srs, shift_id, notify, memory, state, step,
                   chatCalls, ncalls, idx, lastCall, lastResult, toolMsgs,
                   file, report, memory_saved, raisedBy, updates, escSeen>>

\* lines 176 and 290-298: notify if asked (never for an empty batch), return
EmailStep(mail) ==
    /\ pc = "email"
    /\ LET wanted == srs # <<>> /\ (notify.notify_email \/ Truthy(notify.email_to))
           email_result == IF wanted THEN SendEmail(report, notify.email_to, mail)
                           ELSE NoneV
       IN /\ returned' = [t |-> "dict", report |-> report, email |-> email_result,
                          memory_updated |-> memory_saved]
          /\ emailsSent' = emailsSent + (IF wanted THEN 1 ELSE 0)
    /\ pc' = "returned"
    /\ UNCHANGED <<loaded, max_steps, default_memory, tool_calls, transcript,
                   response, srs, shift_id, notify, memory, state, step,
                   chatCalls, ncalls, idx, lastCall, lastResult, toolMsgs,
                   file, report, memory_saved, raisedBy, updates, escSeen>>

Next ==
    \/ \E run \in RunInputs : StartRun(run[1], run[2], run[3])
    \/ LoopExit
    \/ ChatRaises
    \/ \E raw \in Contents : ChatText(raw)
    \/ \E k \in 1..MaxCalls : ChatCalls(k)
    \/ \E call \in RunCalls :
          \E gen \in GenFor(call.name), mail \in MailFor(call.name) :
             Dispatch(call, gen, mail)
    \/ \E gen \in GenOutcomes : Closure(gen)
    \/ UpdateStep
    \/ SaveStep
    \/ \E mail \in MailOutcomes : EmailStep(mail)

Spec == Init /\ [][Next]_vars

-----------------------------------------------------------------------------
(* Properties of the run *)

ArtifactSlots == {"stats", "classifications", "persistent_sites", "action_list",
                  "summary"}

\* C1: a run requests at most max_steps decisions from the backend, each
\* request belongs to one iteration of the loop, and the loop never starts
\* an iteration beyond the budget, whatever the replies.
C1_StepBudget ==
    /\ chatCalls = step
    /\ step <= max_steps

\* the largest budget is spent while the backend still proposes invocations
C1_BudgetSpent ==
    /\ pc = "loop"
    /\ max_steps = MaxSteps
    /\ default_memory = [doc |-> DEFAULT_MEMORY, aliased |-> FALSE]
    /\ tool_calls = <<>>
    /\ transcript = <<>>
    /\ response = NoneV
    /\ chatCalls = max_steps
    /\ lastCall # NoCall
    /\ ~AllReady(state)

\* the five artifacts of a returned report are there
ReportPopulated(rep) ==
    /\ Truthy(rep.summary)
    /\ Truthy(rep.stats)
    /\ Truthy(rep.classifications)
    /\ Len(rep.actions) >= 1

\* C2: a run over a non-empty batch whose decision requests all got a reply
\* never ends in an escaped exception, and what it returns is a report with
\* every artifact populated.
C2_EveryRunReturnsFullReport ==
    (srs # <<>> /\ raisedBy # "llm.chat")
        => /\ pc # "raised"
           /\ pc = "returned" => ReportPopulated(returned.report)

\* C3: a failed decision request does not escape run().
C3_ChatFailureContained == ~(pc = "raised" /\ raisedBy = "llm.chat")

\* C4: once an artifact slot of the state is set, no later step of the run
\* changes it.
C4_SlotsWrittenOnce ==
    [][\A slot \in ArtifactSlots :
          (pc # "idle" /\ state[slot] # NoneV) => state'[slot] = state[slot]]_vars

\* C5: dispatching a recognized operation without arguments never raises,
\* whichever slots are still unset.
C5_MissingArgumentsNeverRaise ==
    ~(/\ pc = "raised"
      /\ raisedBy = "_execute_tool"
      /\ lastCall.name \in ToolNames
      /\ lastCall.arguments = RawNone)

\* C6: whatever the shape of the argument blob, decoding yields a mapping of
\* arguments and the dispatch does not raise over it.
C6_DecodingYieldsMapping ==
    lastCall # NoCall
        => /\ ParseArgs(lastCall.arguments).t = "dict"
           /\ ~(pc = "raised" /\ lastCall.arguments.k = "json")

\* C7: dispatching a name outside the dispatch table returns the
\* unknown-operation result, appends its tool message, raises nothing,
\* leaves the state dictionary and the stored document as they were, and the
\* loop goes on to the next invocation of the reply or to the next iteration.
C7_UnknownToolContinues ==
    [][(pc = "dispatch" /\ lastCall'.name \notin ToolNames)
          => /\ state' = state
             /\ file' = file
             /\ emailsSent' = emailsSent
             /\ "error" \in DOMAIN lastResult'
             /\ toolMsgs' = toolMsgs + 1
             /\ idx' = idx + 1
             /\ pc' = IF idx' < ncalls THEN "dispatch" ELSE "loop"]_vars

\* an unknown name was dispatched, with an undecodable-as-mapping blob, and
\* the next invocation of the same reply is about to be dispatched
C7_UnknownToolDispatched ==
    /\ pc = "dispatch"
    /\ idx = 1
    /\ lastCall.name \notin ToolNames
    /\ lastCall.arguments = RawJson(List(<<>>))
    /\ "error" \in DOMAIN lastResult

\* C9: a run that returns has increased total_shifts by 1 and total_srs by
\* the number of tickets of its batch.
C9_CountersFollowBatch ==
    pc = "returned"
        => /\ file.stats.total_shifts = loaded.stats.total_shifts + 1
           /\ file.stats.total_srs = loaded.stats.total_srs + Len(srs)

\* the elements of a list
Range(seq) == {seq[i] : i \in DOMAIN seq}

\* C11: no step of a run lowers or resets a site's historical count in the
\* stored document, and the save that ends a run leaves each count at what
\* the run loaded, plus one when the site is in the run's persistent-site
\* list.
C11_RecurrenceCountsOnlyGrow ==
    [][\A s \in Sites :
          /\ LoadMemory(file').recurring_sites[s] >= LoadMemory(file).recurring_sites[s]
          /\ (pc = "save" /\ pc' = "email")
                => file'.recurring_sites[s] =
                      loaded.recurring_sites[s]
                      + (IF s \in Range(report.persistent_sites) THEN 1 ELSE 0)]_vars

\* C14: generate_summary, given a mapping of arguments, never raises, and
\* the summary it returns is the stripped backend text or the fixed
\* template.
C14_SummaryNeverRaises ==
    (lastCall.name = "generate_summary" /\ ParseArgs(lastCall.arguments).t = "dict")
        => /\ pc # "raised"
           /\ Truthy(lastResult.summary)
           /\ lastResult.summary \in
                 {Str("LLM summary"),
                  FallbackSummary(state.stats, state.classifications, state.shift_id)}

\* C16: the stats of the report a run returns count the run's batch:
\* total is the number of its tickets and open does not exceed total.
C16_StatsCountTheBatch ==
    pc = "returned"
        => /\ returned.report.stats.total = Len(srs)
           /\ returned.report.stats.open <= returned.report.stats.total

\* C18: a run over an empty batch returns the fixed summary, exactly one
\* low-priority sentinel action, no email outcome and memory_updated true,
\* whatever the shift id and the notification parameters; it asks the
\* backend nothing.
C18_EmptyBatchReport ==
    (pc = "returned" /\ srs = <<>>)
        => /\ returned.report.summary = Str("No SRs provided for this shift.")
           /\ returned.report.shift_id = shift_id
           /\ Len(returned.report.actions) = 1
           /\ returned.report.actions[1].priority = "low"
           /\ "sr_id" \notin DOMAIN returned.report.actions[1]
           /\ returned.email = NoneV
           /\ returned.memory_updated = TRUE
           /\ chatCalls = 0

\* an empty batch was run with notification requested and with a shift id,
\* on top of an earlier document
C18_EmptyBatchReturned ==
    /\ pc = "returned"
    /\ srs = <<>>
    /\ notify.notify_email
    /\ shift_id = Str("S1")
    /\ loaded = PriorMemory
    /\ file.stats.total_shifts = loaded.stats.total_shifts + 1

\* notification is requested by the flag or by a destination address
Requested == notify.notify_email \/ Truthy(notify.email_to)

\* the report is assembled before memory is updated, memory is updated
\* before it is persisted, and it is persisted before run() gets to the
\* notifier
C19_StepsInOrder ==
    /\ pc \in {"update", "save", "email"} => report # NoneV
    /\ pc \in {"save", "email"} =>
          /\ updates = 1
          /\ memory.stats.total_shifts = loaded.stats.total_shifts + 1
    /\ pc = "email" => memory_saved /\ file = memory

\* run() goes past its notifier: the step from the persisted memory to the
\* return
C19_PastNotifier == pc = "email" /\ pc' = "returned"

\* the notifier was invoked once by this step and its outcome is the email
\* field of what run() returns
C19_NotifiedOnce ==
    /\ emailsSent' = emailsSent + 1
    /\ \E mail \in MailOutcomes :
          returned'.email = SendEmail(report, notify.email_to, mail)
    /\ returned'.report = report

\* C19 (as amended): in a run over a non-empty batch with notification
\* requested, run() invokes the notifier only after the report is assembled,
\* memory updated and memory persisted, in that order, invokes it once, and
\* returns its outcome as the email field; a run over an empty batch, and a
\* run without a request, never invoke it and return no email outcome.
C19_NotifiesLastOnNonEmptyBatch ==
    [][/\ C19_StepsInOrder
       /\ C19_PastNotifier =>
             IF srs # <<>> /\ Requested
             THEN C19_NotifiedOnce
             ELSE emailsSent' = emailsSent /\ returned'.email = NoneV
       /\ (emailsSent' # emailsSent /\ pc # "dispatch") => C19_PastNotifier]_vars

\* C19 (as claimed): the same for every run with notification requested,
\* over an empty batch too.
C19_NotifiesLastOnEveryBatch ==
    [][/\ C19_StepsInOrder
       /\ C19_PastNotifier =>
             IF Requested
             THEN C19_NotifiedOnce
             ELSE emailsSent' = emailsSent /\ returned'.email = NoneV
       /\ (emailsSent' # emailsSent /\ pc # "dispatch") => C19_PastNotifier]_vars

\* a run over a non-empty batch returned the outcome of a sent notification
\* addressed to the destination it was given
C19_NotificationReturned ==
    /\ pc = "returned"
    /\ srs # <<>>
    /\ Truthy(notify.email_to)
    /\ returned.email = SendEmail(report, notify.email_to, "sent")
    /\ emailsSent = 1
    /\ memory_saved
    /\ file = memory

-----------------------------------------------------------------------------
(* The router on its own: one invocation, with every argument choice,       *)
(* dispatched in a state that earlier argument-less invocations left behind *)

ArtifactTools == {"analyze_tickets", "classify_tickets", "detect_persistent_sites",
                  "create_action_list", "generate_summary"}

\* the states one more argument-less invocation can make of the states in S
AfterOneMore(S) ==
    S \cup {ExecuteTool(name, NoArgs, st, "text", "missing", Missing).state :
               name \in ArtifactTools, st \in S}

\* the states up to four argument-less invocations leave behind
ToolStates(batch, sid, mem) ==
    AfterOneMore(AfterOneMore(AfterOneMore(AfterOneMore(
        {InitialState(batch, sid, mem)}))))

InitTool ==
    /\ pc = "dispatch"
    /\ max_steps = MaxSteps
    /\ default_memory = [doc |-> DEFAULT_MEMORY, aliased |-> FALSE]
    /\ tool_calls = <<>>
    /\ transcript = <<>>
    /\ response = NoneV
    /\ file \in {Missing, PriorMemory}
    /\ \E run \in RunInputs :
          /\ run[1] # <<>>
          /\ srs = run[1]
          /\ shift_id = run[2]
          /\ notify = run[3]
    /\ memory = LoadMemory(file)
    /\ loaded = LoadMemory(file)
    /\ state \in ToolStates(srs, shift_id, memory)
    /\ step = 1
    /\ chatCalls = 1
    /\ ncalls = 1
    /\ idx = 0
    /\ lastCall = NoCall
    /\ lastResult = NoneV
    /\ toolMsgs = 0
    /\ report = NoneV
    /\ memory_saved = FALSE
    /\ returned = NoneV
    /\ raisedBy = "nothing"
    /\ emailsSent = 0
    /\ updates = 0
    /\ escSeen = 0

NextTool ==
    \E call \in ProposedCalls :
       \E gen \in GenFor(call.name), mail \in MailFor(call.name) :
          Dispatch(call, gen, mail)

SpecTool == InitTool /\ [][NextTool]_vars

\* the argument a handler is to use: the supplied one when it is truthy
C8_PickTruthy(args, key, fallback) ==
    IF args[key].t # "absent" /\ Truthy(args[key]) THEN args[key] ELSE fallback

\* the argument a handler is to use: the supplied one, whatever it is
C8_PickSupplied(args, key, fallback) ==
    IF args[key].t # "absent" THEN args[key] ELSE fallback

\* a dispatch that returned used, for each argument with a RunState fallback,
\* the value Pick chooses between the supplied argument and the slot
C8_HandlersUse(Pick(_, _, _)) ==
    (pc = "dispatch" /\ pc' = "loop" /\ lastCall'.name \in ToolNames)
    => LET name == lastCall'.name
           args == ParseArgs(lastCall'.arguments)
           batch == Pick(args, "srs", state.srs).v
           cls == Pick(args, "classifications", state.classifications)
       IN /\ name = "analyze_tickets" => lastResult' = AnalyzeTickets(batch)
          /\ name = "classify_tickets" =>
                lastResult' = ClassifyTickets(batch,
                    ArgGetDefault(args, "followup_hours", Num(FOLLOWUP_HOURS)).n,
                    ArgGetDefault(args, "sla_hours", Num(SLA_HOURS)).n)
          /\ name = "detect_persistent_sites" =>
                lastResult' = DetectPersistentSites(batch,
                    Pick(args, "memory", state.memory),
                    ArgGetDefault(args, "min_recurrence", Num(MIN_RECURRENCE)).n)
          /\ name = "create_action_list" => lastResult' = CreateActionList(cls)
          /\ name = "generate_summary" =>
                /\ cls.t = "dict"
                /\ Pick(args, "action_list", state.action_list).t = "dict"
                /\ lastResult'.summary \in
                      {Str("LLM summary"),
                       FallbackSummary(Pick(args, "stats", state.stats), cls,
                                       Pick(args, "shift_id", state.shift_id))}
          /\ (name = "save_memory" /\ lastResult'.path = MEMORY_PATH) =>
                file' = Pick(args, "memory", state.memory)

\* C8 (as amended): a handler uses the explicit argument when the invocation
\* supplies a non-empty one, and the RunState slot when the argument is
\* absent or empty (empty list, empty mapping, empty string).
C8_TruthyArgumentOverrides == [][C8_HandlersUse(C8_PickTruthy)]_vars

\* C8 (as claimed): a handler uses the explicit argument whenever the
\* invocation supplies it, an empty one included.
C8_SuppliedArgumentOverrides == [][C8_HandlersUse(C8_PickSupplied)]_vars

\* explicit classifications were used although the state held its own, and
\* the state's own stay in their slot
C8_ExplicitArgumentUsed ==
    /\ pc = "loop"
    /\ lastCall = [name |-> "create_action_list",
                   arguments |-> RawJson(OneArg("classifications", AltClassifications))]
    /\ Truthy(state.classifications)
    /\ state.classifications # AltClassifications
    /\ state.action_list = CreateActionList(AltClassifications)

-----------------------------------------------------------------------------
(* The memory document over successive runs: each run loads the document,  *)
(* applies update_memory and saves the result                              *)

InitMem ==
    /\ pc = "idle"
    /\ max_steps = 0
    /\ default_memory = [doc |-> DEFAULT_MEMORY, aliased |-> FALSE]
    /\ tool_calls = <<>>
    /\ transcript = <<>>
    /\ response = NoneV
    /\ file = Missing
    /\ srs = <<>>
    /\ shift_id = NoneV
    /\ notify = [notify_email |-> FALSE, email_to |-> NoneV]
    /\ memory = NoneV
    /\ loaded = NoneV
    /\ state = InitialState(<<>>, NoneV, NoneV)
    /\ step = 0
    /\ chatCalls = 0
    /\ ncalls = 0
    /\ idx = 0
    /\ lastCall = NoCall
    /\ lastResult = NoneV
    /\ toolMsgs = 0
    /\ report = NoneV
    /\ memory_saved = FALSE
    /\ returned = NoneV
    /\ raisedBy = "nothing"
    /\ emailsSent = 0
    /\ updates = 0
    /\ escSeen = 0

\* the memory path of one run over MaxEsc tickets of which k escalate; the
\* shift id is the number of the run and the escalations are numbered on
MemoryRun(k) ==
    /\ pc = "idle"
    /\ updates < MaxUpdates
    /\ LET rep == [shift_id |-> Num(updates + 1), summary |-> Str("LLM summary")]
           cls == [t |-> "dict",
                   escalations |-> [i \in 1..k |-> [id |-> escSeen + i, priority |-> ""]]]
           stats == [t |-> "dict", total |-> MaxEsc, open |-> MaxEsc]
       IN file' = UpdateMemory(LoadMemory(file), rep, cls, <<>>, stats)
    /\ updates' = updates + 1
    /\ escSeen' = escSeen + k
    /\ UNCHANGED <<pc, max_steps, default_memory, tool_calls, transcript,
                   response, srs, shift_id, notify, memory, loaded, state,
                   step, chatCalls, ncalls, idx, lastCall, lastResult,
                   toolMsgs, report, memory_saved, returned, raisedBy,
                   emailsSent>>

NextMem == \E k \in 0..MaxEsc : MemoryRun(k)

SpecMem == InitMem /\ [][NextMem]_vars

Min(a, b) == IF a <= b THEN a ELSE b

\* C10: after every update past_shifts holds the most recent
\* min(updates, 50) shift records and escalations the most recent
\* min(appended, 200) entries, both in the order they were appended.
C10_BoundedFifoLogs ==
    LET m == LoadMemory(file)
        np == Len(m.past_shifts)
        ne == Len(m.escalations)
    IN /\ np = Min(updates, PAST_SHIFTS_CAP)
       /\ ne = Min(escSeen, ESCALATIONS_CAP)
       /\ \A i \in 1..np : m.past_shifts[i].shift_id = Num(updates - np + i)
       /\ \A i \in 1..ne : m.escalations[i].id = escSeen - ne + i

\* both caps have been exceeded, so entries have been evicted
C10_BothCapsExceeded ==
    /\ updates > PAST_SHIFTS_CAP
    /\ escSeen > ESCALATIONS_CAP
    /\ Len(file.past_shifts) = PAST_SHIFTS_CAP
    /\ Len(file.escalations) = ESCALATIONS_CAP

-----------------------------------------------------------------------------
(* The tools called directly, as the closure step and the tests call them: *)
(* a batch and a memory snapshot are fixed, and each step applies one tool  *)

FnTickets == {T1, T2, T3, T4, T5, T6, T7, T8}

\* every batch of at most MaxBatch tickets
FnBatches == UNION {[1..n -> FnTickets] : n \in 0..MaxBatch}

\* memory snapshots: fresh, after earlier runs, with a large count, empty, none
FnMemories == {DEFAULT_MEMORY, PriorMemory, AltMemory, EmptyDict, NoneV}

\* threshold settings <<followup_hours, sla_hours>>
FnThresholds == {<<8, 24>>, <<0, 0>>, <<24, 8>>, <<50, 50>>, <<200, 200>>}

\* the parameters of a direct call
Direct(params) == [k |-> "direct"] @@ params

fnFixed == <<pc, max_steps, default_memory, tool_calls, transcript, response,
             srs, shift_id, notify, memory, loaded, state, step, chatCalls,
             ncalls, idx, toolMsgs, file, report, memory_saved, returned,
             raisedBy, emailsSent, updates, escSeen>>

InitFn ==
    /\ pc = "tools"
    /\ max_steps = 0
    /\ default_memory = [doc |-> DEFAULT_MEMORY, aliased |-> FALSE]
    /\ tool_calls = <<>>
    /\ transcript = <<>>
    /\ response = NoneV
    /\ file = Missing
    /\ srs \in FnBatches
    /\ shift_id = NoneV
    /\ notify = [notify_email |-> FALSE, email_to |-> NoneV]
    /\ memory \in FnMemories
    /\ loaded = NoneV
    /\ state = InitialState(srs, NoneV, memory)
    /\ step = 0
    /\ chatCalls = 0
    /\ ncalls = 0
    /\ idx = 0
    /\ lastCall = NoCall
    /\ lastResult = NoneV
    /\ toolMsgs = 0
    /\ report = NoneV
    /\ memory_saved = FALSE
    /\ returned = NoneV
    /\ raisedBy = "nothing"
    /\ emailsSent = 0
    /\ updates = 0
    /\ escSeen = 0

\* analyze_tickets(srs)
CallAnalyzeTickets ==
    /\ pc = "tools"
    /\ lastCall' = [name |-> "analyze_tickets", arguments |-> [k |-> "direct"]]
    /\ lastResult' = AnalyzeTickets(srs)
    /\ UNCHANGED fnFixed

\* classify_tickets(srs, followup_hours, sla_hours)
CallClassifyTickets(followup_hours, sla_hours) ==
    /\ pc = "tools"
    /\ lastCall' = [name |-> "classify_tickets",
                    arguments |-> Direct([followup_hours |-> followup_hours,
                                          sla_hours |-> sla_hours])]
    /\ lastResult' = ClassifyTickets(srs, followup_hours, sla_hours)
    /\ UNCHANGED fnFixed

\* detect_persistent_sites(srs, memory, min_recurrence)
CallDetectPersistentSites(min_recurrence) ==
    /\ pc = "tools"
    /\ lastCall' = [name |-> "detect_persistent_sites",
                    arguments |-> Direct([min_recurrence |-> min_recurrence])]
    /\ lastResult' = DetectPersistentSites(srs, memory, min_recurrence)
    /\ UNCHANGED fnFixed

\* create_action_list(classifications, srs) on what classify_tickets made
\* of the batch
CallCreateActionList(followup_hours, sla_hours) ==
    /\ pc = "tools"
    /\ LET classifications == ClassifyTickets(srs, followup_hours, sla_hours)
       IN /\ lastCall' = [name |-> "create_action_list",
                          arguments |-> Direct([classifications |-> classifications])]
          /\ lastResult' = CreateActionList(classifications)
    /\ UNCHANGED fnFixed

NextFn ==
    \/ CallAnalyzeTickets
    \/ \E th \in FnThresholds : CallClassifyTickets(th[1], th[2])
    \/ \E m \in 0..MaxRecurrence : CallDetectPersistentSites(m)
    \/ \E th \in FnThresholds : CallCreateActionList(th[1], th[2])

SpecFn == InitFn /\ [][NextFn]_vars

\* the site a ticket counts for: its site field, its node field when it has
\* no site, without surrounding whitespace; "" when that leaves nothing
C12_SiteOf(sr) == IF sr.site # "" THEN StripKey(sr.site) ELSE StripKey(sr.node)

\* the number of tickets of the batch that count for the site
C12_Count(s) == Cardinality({i \in DOMAIN srs : C12_SiteOf(srs[i]) = s})

\* the historical count of the site in the memory snapshot
C12_Historical(s) ==
    IF memory.t = "dict" /\ "recurring_sites" \in DOMAIN memory
    THEN memory.recurring_sites[s] ELSE 0

\* the place of a site in string order
C12_Rank(s) == CHOOSE i \in DOMAIN SiteOrder : SiteOrder[i] = s

\* persistent as claimed: current or historical count reaches the threshold
C12_CountReached(s, m) == C12_Count(s) >= m \/ C12_Historical(s) >= m

\* persistent as amended: the same, for a site that has a ticket in the batch
C12_CountReachedInBatch(s, m) == C12_Count(s) >= 1 /\ C12_CountReached(s, m)

\* the result of detect_persistent_sites holds exactly the sites Member
\* selects, sorted and without duplicates, and current_counts holds the
\* count of every site that has a ticket in the batch
C12_ResultIs(Member(_, _)) ==
    lastCall.name = "detect_persistent_sites"
    => LET m == lastCall.arguments.min_recurrence
           ps == lastResult.persistent_sites
           cc == lastResult.current_counts
       IN /\ \A s \in Sites : (s \in Range(ps)) <=> Member(s, m)
          /\ \A i, j \in DOMAIN ps : i < j => C12_Rank(ps[i]) < C12_Rank(ps[j])
          /\ DOMAIN cc = {s \in Sites : C12_Count(s) >= 1}
          /\ \A s \in DOMAIN cc : cc[s] = C12_Count(s)

\* C12 (as amended): a site is in the persistent-site result exactly when it
\* has at least one ticket in the batch and its batch count or its
\* historical count reaches the threshold; the result is sorted and free of
\* duplicates and current_counts is the per-site ticket count of the batch.
C12_PersistentAmongBatchSites == C12_ResultIs(C12_CountReachedInBatch)

\* C12 (as claimed): a site is in the result exactly when its batch count or
\* its historical count reaches the threshold, in the batch or not.
C12_PersistentAmongAllSites == C12_ResultIs(C12_CountReached)

\* site A is persistent by its two tickets (one with a padded site field),
\* site B by its history alone
C12_BothWaysPersistent ==
    /\ srs = <<T5, T1, T3>>
    /\ memory = PriorMemory
    /\ lastCall.name = "detect_persistent_sites"
    /\ lastCall.arguments.min_recurrence = 2
    /\ lastResult.persistent_sites = <<"A", "B">>

\* C13: for the batch and the memory snapshot at hand, the persistent-site
\* set computed with a threshold is a subset of the set computed with any
\* smaller threshold.
C13_ThresholdMonotone ==
    lastCall.name = "detect_persistent_sites"
    => \A m1 \in 0..lastCall.arguments.min_recurrence :
          Range(lastResult.persistent_sites)
             \subseteq Range(DetectPersistentSites(srs, memory, m1).persistent_sites)

\* raising the threshold from 1 to 2 dropped a site and kept another
C13_SiteDropped ==
    /\ lastCall.name = "detect_persistent_sites"
    /\ lastCall.arguments.min_recurrence = 2
    /\ memory = DEFAULT_MEMORY
    /\ lastResult.persistent_sites = <<"A">>
    /\ DetectPersistentSites(srs, memory, 1).persistent_sites = <<"A", "B">>

\* the identifiers of the entries of a list
Ids(entries) == {entries[i].id : i \in DOMAIN entries}

\* C15: whatever the thresholds, a ticket whose normalized status is in the
\* closed vocabulary is in neither open_issues nor follow_up_required, and
\* every follow_up_required entry is an open_issues entry.
C15_ClosedNeverOpenNorFollowUp ==
    lastCall.name = "classify_tickets"
    => /\ \A i \in DOMAIN srs :
             Norm(srs[i].status) \in {"closed", "resolved", "done", "completed",
                                       "cancelled"}
                => /\ srs[i].id \notin Ids(lastResult.open_issues)
                   /\ srs[i].id \notin Ids(lastResult.follow_up_required)
       /\ Ids(lastResult.follow_up_required) \subseteq Ids(lastResult.open_issues)

\* closed tickets that are stale, flagged and high priority were classified
\* next to an open one: they escalate, and only the open one is followed up
C15_ClosedTicketsClassified ==
    /\ srs = <<T2, T1, T5>>
    /\ lastCall.name = "classify_tickets"
    /\ lastCall.arguments.followup_hours = 0
    /\ Ids(lastResult.escalations) = {"SR1", "SR2", "SR5"}
    /\ Ids(lastResult.follow_up_required) = {"SR1"}
    /\ Ids(lastResult.open_issues) = {"SR1"}

\* the sentinel entry: low priority, about no ticket
C17_IsSentinel(a) == a.priority = "low" /\ "sr_id" \notin DOMAIN a

\* C17: the action list is one action per escalation in list order, then
\* one medium-priority action per follow-up in list order; it is the single
\* low-priority sentinel exactly when both lists are empty and never holds
\* the sentinel next to a real action.
C17_ActionsFollowClassification ==
    lastCall.name = "create_action_list"
    => LET escs == lastCall.arguments.classifications.escalations
           fus == lastCall.arguments.classifications.follow_up_required
           actions == lastResult.actions
           ne == Len(escs)
           nf == Len(fus)
       IN IF ne + nf = 0
          THEN Len(actions) = 1 /\ C17_IsSentinel(actions[1])
          ELSE /\ Len(actions) = ne + nf
               /\ \A i \in 1..ne :
                     /\ actions[i].action = "Escalate"
                     /\ actions[i].sr_id = escs[i].id
               /\ \A j \in 1..nf :
                     /\ actions[ne + j].action = "Follow up"
                     /\ actions[ne + j].sr_id = fus[j].id
                     /\ actions[ne + j].reason = fus[j].reason
                     /\ actions[ne + j].priority = "medium"
               /\ \A i \in DOMAIN actions : ~C17_IsSentinel(actions[i])

\* escalations and follow-ups were both turned into actions, an escalation
\* of a low-priority ticket among them
C17_BothListsTurnedIntoActions ==
    /\ srs = <<T3, T2, T1>>
    /\ lastCall.name = "create_action_list"
    /\ Len(lastCall.arguments.classifications.escalations) = 2
    /\ Len(lastCall.arguments.classifications.follow_up_required) = 2
    /\ Len(lastResult.actions) = 4
    /\ lastResult.actions[1].priority = "low"
    /\ lastResult.actions[3].sr_id = "SR3"

-----------------------------------------------------------------------------
(* The memory store on its own: save_memory and load_memory of memory.py,  *)
(* called with a path and a document                                       *)

\* the paths tried: none, the empty string, a file name
StorePaths == {NoneV, Str(""), MEMORY_PATH}

\* the documents tried: fresh, after two runs, after three, with a large
\* count, and an empty mapping
StoreDocs ==
    {DEFAULT_MEMORY, PriorMemory, AltMemory, EmptyDict,
     UpdateMemory(PriorMemory, EmptyReport(Str("S1")),
                  EmptyReport(Str("S1")).classifications, <<"A">>,
                  EmptyReport(Str("S1")).stats)}

storeFixed == <<pc, max_steps, tool_calls, transcript, response, srs, shift_id,
                notify, state, step, chatCalls, ncalls, idx, toolMsgs, report,
                returned, raisedBy, emailsSent, escSeen>>

InitStore ==
    /\ pc = "store"
    /\ max_steps = 0
    /\ default_memory = [doc |-> DEFAULT_MEMORY, aliased |-> FALSE]
    /\ tool_calls = <<>>
    /\ transcript = <<>>
    /\ response = NoneV
    /\ file \in {Missing, Corrupt, PriorMemory}
    /\ srs = <<>>
    /\ shift_id = NoneV
    /\ notify = [notify_email |-> FALSE, email_to |-> NoneV]
    /\ memory = NoneV
    /\ loaded = NoneV
    /\ state = InitialState(<<>>, NoneV, NoneV)
    /\ step = 0
    /\ chatCalls = 0
    /\ ncalls = 0
    /\ idx = 0
    /\ lastCall = NoCall
    /\ lastResult = NoneV
    /\ toolMsgs = 0
    /\ report = NoneV
    /\ memory_saved = FALSE
    /\ returned = NoneV
    /\ raisedBy = "nothing"
    /\ emailsSent = 0
    /\ updates = 0
    /\ escSeen = 0

\* save_memory(path, doc): memory is the document handed over, memory_saved
\* what the call returned
CallSaveMemory(path, doc) ==
    /\ pc = "store"
    /\ file' = SaveMemoryStore(path, doc, file).file
    /\ memory_saved' = SaveMemoryStore(path, doc, file).saved
    /\ memory' = doc
    /\ lastCall' = [name |-> "save_memory", arguments |-> Direct([path |-> path])]
    /\ lastResult' = [t |-> "dict", saved |-> SaveMemoryStore(path, doc, file).saved]
    /\ UNCHANGED <<loaded, default_memory, updates>>
    /\ UNCHANGED storeFixed

\* load_memory(path): loaded is the document returned; the call notes the
\* path of the save it follows, if it follows one.  default_memory.aliased
\* tells whether the document returned is the module-level default itself.
CallLoadMemory(path) ==
    /\ pc = "store"
    /\ loaded' = IF Defaulting(path, file) THEN DeepCopy(default_memory).doc
                 ELSE LoadMemoryStore(path, file)
    /\ default_memory' =
          [default_memory EXCEPT
              !.aliased = Defaulting(path, file) /\ DeepCopy(default_memory).aliased]
    /\ lastCall' = [name |-> "load_memory",
                    arguments |-> Direct([path |-> path,
                                          after_save_to |->
                                             IF lastCall.name = "save_memory"
                                             THEN lastCall.arguments.path
                                             ELSE Absent])]
    /\ lastResult' = [t |-> "dict", memory |-> loaded']
    /\ UNCHANGED <<file, memory, memory_saved, updates>>
    /\ UNCHANGED storeFixed

\* update_memory(loaded, ...) on the document the last load returned: the
\* document is changed in place (lines 46-68), so an object that shares its
\* contents changes with it; a falsy document is replaced by a fresh copy
\* of the default first (line 44)
CallUpdateMemory(persistent_sites) ==
    /\ pc = "store"
    /\ loaded # NoneV
    /\ updates < MaxStoreUpdates
    /\ LET rep == EmptyReport(Str("S1"))
           cls == ClassifyTickets(<<T1>>, FOLLOWUP_HOURS, SLA_HOURS)
           new == UpdateMemory(loaded, rep, cls, persistent_sites,
                               AnalyzeTickets(<<T1>>))
       IN /\ loaded' = new
          /\ default_memory' =
                IF default_memory.aliased /\ Truthy(loaded)
                THEN [default_memory EXCEPT !.doc = new]
                ELSE default_memory
          /\ lastCall' = [name |-> "update_memory",
                          arguments |-> Direct([persistent_sites |-> persistent_sites])]
          /\ lastResult' = new
    /\ updates' = updates + 1
    /\ UNCHANGED <<file, memory, memory_saved>>
    /\ UNCHANGED storeFixed

NextStore ==
    \/ \E path \in StorePaths, doc \in StoreDocs : CallSaveMemory(path, doc)
    \/ \E path \in StorePaths : CallLoadMemory(path)
    \/ \E persistent_sites \in {<<>>, <<"A">>} : CallUpdateMemory(persistent_sites)

SpecStore == InitStore /\ [][NextStore]_vars

\* a load that directly follows a save to the same path
C20_LoadAfterSave ==
    /\ lastCall.name = "load_memory"
    /\ lastCall.arguments.after_save_to = lastCall.arguments.path

\* C20 (as amended): for every memory document M and every non-empty
\* memory path, save(path, M) followed by load(path) returns a document
\* identical to M.
C20_RoundTripAtGivenPath ==
    (C20_LoadAfterSave /\ Truthy(lastCall.arguments.path)) => loaded = memory

\* C20 (as claimed): the same for every memory path, an empty one included.
C20_RoundTripAtEveryPath == C20_LoadAfterSave => loaded = memory

\* a document with history was saved over another one and read back
C20_DocumentReadBack ==
    /\ C20_LoadAfterSave
    /\ lastCall.arguments.path = MEMORY_PATH
    /\ memory_saved
    /\ memory = AltMemory
    /\ loaded = AltMemory
    /\ file = AltMemory

\* the last call was a load that took one of the defaulting branches
C21_DefaultingLoad ==
    /\ lastCall.name = "load_memory"
    /\ Defaulting(lastCall.arguments.path, file)

\* C21: load never fails: when the memory file is missing or cannot be
\* parsed it returns the zeroed default document (empty past_shifts, empty
\* recurring_sites, empty escalations, total_shifts = 0, total_srs = 0), and
\* each such default is an independent copy, so updating a returned
\* document never changes what a later defaulting load returns.
C21_LoadDefaultsToFreshZeroedDocument ==
    /\ default_memory.doc = DEFAULT_MEMORY
    /\ ~default_memory.aliased
    /\ lastCall.name = "load_memory" => lastResult.t = "dict"
    /\ C21_DefaultingLoad =>
          /\ loaded = DEFAULT_MEMORY
          /\ loaded.past_shifts = <<>>
          /\ \A s \in Sites : loaded.recurring_sites[s] = 0
          /\ loaded.escalations = <<>>
          /\ loaded.stats.total_shifts = 0
          /\ loaded.stats.total_srs = 0

\* an unparsable file was loaded, the document returned was updated twice,
\* nothing was ever saved, and the file was loaded again
C21_DefaultLoadedAfterUpdates ==
    /\ C21_DefaultingLoad
    /\ lastCall.arguments.path = MEMORY_PATH
    /\ file = Corrupt
    /\ memory = NoneV
    /\ updates = 2
    /\ loaded = DEFAULT_MEMORY

\* a reply text with something other than blanks in it
C22_NonBlank(raw) == raw.t = "str" /\ raw.s \notin {"", "  "}

\* a decision without invocations has just been received
C22_ReplyWithoutInvocations ==
    pc = "loop" /\ pc' = "closure" /\ chatCalls' = chatCalls + 1

\* C22: when a backend decision proposes no invocations, the loop
\* terminates in that iteration and no further decision is requested; the
\* reply's free text becomes the summary if and only if it is non-blank and
\* no summary exists yet, and an already existing summary is left unchanged.
C22_FreeTextAdoptedOnce ==
    [][ /\ C22_ReplyWithoutInvocations =>
            /\ state'.summary =
                  IF C22_NonBlank(response') /\ ~Truthy(state.summary)
                  THEN response' ELSE state.summary
            /\ state' = [state EXCEPT !.summary = state'.summary]
        /\ pc \in {"closure", "update", "save", "email", "returned"} =>
            /\ chatCalls' = chatCalls
            /\ pc' \notin {"loop", "dispatch"} ]_vars

\* the second decision of a run came without invocations and with a text,
\* which is the summary now
C22_TextBecameSummary ==
    /\ pc = "closure"
    /\ chatCalls = 2
    /\ response = Str("Handover text")
    /\ state.summary = Str("Handover text")
    /\ Truthy(state.stats)

-----------------------------------------------------------------------------
(* One reply with invocations, followed call by call: lines 219-249 of     *)
(* agent.py with the reply's list and the tool messages kept               *)

\* the invocations a reply is made of here
ReplyCalls ==
    [name : {"analyze_tickets", "classify_tickets", "detect_persistent_sites",
             "create_action_list", "load_memory", "restart_router"},
     arguments : {RawNone}]
    \cup {[name |-> "classify_tickets",
           arguments |-> RawJson(OneArg("followup_hours", Num(100)))]}

\* response.get("tool_calls"), when it is not empty
Replies == UNION {[1..n -> ReplyCalls] : n \in 1..MaxReply}

\* a reply read from its last call to its first
NextCallReversed(calls, done) == calls[Len(calls) - done]

\* `for call in tool_calls`: the call after `done` calls
NextCall(calls, done) == calls[done + 1]

\* json.dumps(result, ensure_ascii=False): the text that encodes the result
JsonDumps(result) == [t |-> "json", v |-> result]

\* the tool message of lines 242-249; the id of a call is its place in the
\* reply
ToolMessage(tool_call_id, name, result) ==
    [role |-> "tool", tool_call_id |-> tool_call_id, name |-> name,
     content |-> JsonDumps(result)]

\* the last decision the step budget allows has arrived with a reply
InitReply ==
    /\ pc = "dispatch"
    /\ max_steps = MaxSteps
    /\ default_memory = [doc |-> DEFAULT_MEMORY, aliased |-> FALSE]
    /\ tool_calls \in Replies
    /\ transcript = <<>>
    /\ response = NoneV
    /\ file \in {Missing, PriorMemory}
    /\ \E run \in RunInputs :
          /\ run[1] # <<>>
          /\ srs = run[1]
          /\ shift_id = run[2]
          /\ notify = run[3]
    /\ memory = LoadMemory(file)
    /\ loaded = LoadMemory(file)
    /\ state = InitialState(srs, shift_id, memory)
    /\ step = MaxSteps
    /\ chatCalls = MaxSteps
    /\ ncalls = Len(tool_calls)
    /\ idx = 0
    /\ lastCall = NoCall
    /\ lastResult = NoneV
    /\ toolMsgs = 0
    /\ report = NoneV
    /\ memory_saved = FALSE
    /\ returned = NoneV
    /\ raisedBy = "nothing"
    /\ emailsSent = 0
    /\ updates = 0
    /\ escSeen = 0

\* one pass of the loop of lines 237-249: the next call of the reply is
\* executed and, unless it raised, its tool message is appended
DispatchNext(gen, mail) ==
    /\ DispatchCall(NextCall(tool_calls, idx), gen, mail)
    /\ transcript' =
          IF pc' = "raised" THEN transcript
          ELSE Append(transcript, ToolMessage(idx + 1, lastCall'.name, lastResult'))
    /\ UNCHANGED tool_calls

NextReply ==
    \E gen \in {"text"}, mail \in {"missing"} : DispatchNext(gen, mail)

SpecReply == InitReply /\ [][NextReply]_vars

\* the i-th call of the reply was sent without arguments
C23_NoArguments(i) == tool_calls[i].arguments = RawNone

\* C23: when a backend decision proposes invocations c1..ck, they are
\* executed strictly in that order, the RunState effect of ci is visible to
\* c(i+1) (an artifact produced by ci is the fallback input of c(i+1)), and
\* exactly k transcript entries are appended in the same order, each
\* carrying the operation name and the result of that execution, before
\* the next decision is requested.
C23_ExecutedInOrder ==
    /\ Len(transcript) = idx /\ toolMsgs = idx
    /\ Len(transcript) <= Len(tool_calls)
    /\ \A i \in 1..Len(transcript) :
          /\ transcript[i].name = tool_calls[i].name
          /\ transcript[i].tool_call_id = i
    /\ idx > 0 => transcript[idx].content = JsonDumps(lastResult)
    /\ lastCall = IF pc = "raised" THEN tool_calls[idx + 1]
                  ELSE IF idx > 0 THEN tool_calls[idx] ELSE NoCall
    /\ pc = "loop" <=> Len(transcript) = Len(tool_calls)
    /\ \A i \in 2..Len(transcript) :
          /\ ( /\ tool_calls[i].name = "create_action_list" /\ C23_NoArguments(i)
               /\ tool_calls[i - 1].name = "classify_tickets" )
             => transcript[i].content =
                   JsonDumps(CreateActionList(transcript[i - 1].content.v))
          /\ ( /\ tool_calls[i].name = "detect_persistent_sites"
               /\ C23_NoArguments(i)
               /\ tool_calls[i - 1].name = "load_memory" )
             => transcript[i].content =
                   JsonDumps(DetectPersistentSites(srs,
                                transcript[i - 1].content.v.memory, MIN_RECURRENCE))

\* three invocations were executed: a classification with a threshold of
\* its own, the action list made from it, and the default classification
C23_ThreeInOrder ==
    /\ pc = "loop"
    /\ srs = <<T1, T2>>
    /\ Len(tool_calls) = 3
    /\ tool_calls[1].arguments # RawNone
    /\ <<transcript[1].name, transcript[2].name, transcript[3].name>>
          = <<"classify_tickets", "create_action_list", "classify_tickets">>
    /\ transcript[2].content.v = CreateActionList(transcript[1].content.v)
    /\ transcript[2].content.v # CreateActionList(transcript[3].content.v)

\* the five artifact slots of the run state, in the order of the closure
C24_Slots == <<"stats", "classifications", "persistent_sites", "action_list", "summary">>

\* what a closure step does when the persistent sites, if missing, are
\* detected against the document mem
C24_ClosureStep(mem) ==
    (pc = "closure" /\ pc' = "update") =>
        /\ \A i \in 1..5 :
              Truthy(state[C24_Slots[i]]) => state'[C24_Slots[i]] = state[C24_Slots[i]]
        /\ ~Truthy(state.stats) => state'.stats = AnalyzeTickets(srs)
        /\ ~Truthy(state.classifications) =>
              state'.classifications = ClassifyTickets(srs, FOLLOWUP_HOURS, SLA_HOURS)
        /\ ~Truthy(state.persistent_sites) =>
              state'.persistent_sites = DetectPersistentSites(srs, mem, MIN_RECURRENCE)
        /\ ~Truthy(state.action_list) =>
              state'.action_list = CreateActionList(state'.classifications)
        /\ ~Truthy(state.summary) =>
              \E gen \in GenOutcomes :
                 state'.summary =
                    GenerateSummary(state'.stats, state'.classifications,
                                    state'.persistent_sites, state'.action_list,
                                    shift_id, gen).summary
        /\ report' = [t |-> "dict", shift_id |-> shift_id,
                      summary |-> state'.summary, stats |-> state'.stats,
                      classifications |-> state'.classifications,
                      actions |-> state'.action_list.actions,
                      persistent_sites |-> state'.persistent_sites.persistent_sites]
        /\ state' = [state EXCEPT !.stats = state'.stats,
                                  !.classifications = state'.classifications,
                                  !.persistent_sites = state'.persistent_sites,
                                  !.action_list = state'.action_list,
                                  !.summary = state'.summary,
                                  !.report = report']

\* C24 (as amended): after the loop ends, the closure step computes exactly
\* the artifacts that are still missing, in the fixed order stats ->
\* classifications -> persistent sites -> action list -> summary; the
\* persistent sites are detected against the memory snapshot loaded at the
\* start of the run, the action list and the summary are computed from the
\* artifacts then in RunState; every artifact the loop already produced is
\* left unchanged and appears unchanged in the Report.
C24_ClosureFromLoadedSnapshot == [][C24_ClosureStep(memory)]_vars

\* C24 (as claimed): every missing artifact is computed from the values
\* then in RunState, the memory document in it included.
C24_ClosureFromRunState == [][C24_ClosureStep(state.memory)]_vars

\* the loop left statistics of another batch and a classification with a
\* threshold of its own; the closure kept both and made the action list
\* from that classification
C24_KeptAndFilled ==
    /\ pc = "update"
    /\ srs = <<T1, T2>>
    /\ state.stats = AnalyzeTickets(<<T1>>)
    /\ state.stats # AnalyzeTickets(srs)
    /\ state.classifications = ClassifyTickets(srs, 100, SLA_HOURS)
    /\ state.classifications # ClassifyTickets(srs, FOLLOWUP_HOURS, SLA_HOURS)
    /\ state.action_list = CreateActionList(state.classifications)
    /\ state.persistent_sites = DetectPersistentSites(srs, memory, MIN_RECURRENCE)
    /\ report.stats = state.stats
    /\ report.actions = state.action_list.actions

\* the ticket of the batch with the given id is in the list
C25_Listed(sr, entries) == sr.id \in Ids(entries)

\* the age of the ticket is known
C25_AgeKnown(sr) == sr.hours_since >= 0

\* C25: for every ticket and every follow-up threshold, the ticket is in
\* follow-up-required if and only if it is not closed and (its last-update
\* timestamp parses and the time since it is >= the threshold, or its
\* normalized status contains "pending" or "waiting"); a missing or
\* unparsable timestamp never makes a ticket stale and never raises.
\* Consequently an open P1 ticket last updated 48 hours ago with SLA
\* threshold 24h is in open-issues, escalations and follow-up-required.
C25_FollowUpExactly ==
    lastCall.name = "classify_tickets" =>
       /\ lastResult.t = "dict"
       /\ \A i \in DOMAIN srs :
             LET sr == srs[i]
                 status == Norm(sr.status)
                 followup_hours == lastCall.arguments.followup_hours
             IN /\ C25_Listed(sr, lastResult.follow_up_required)
                   <=> /\ status \notin CLOSED_STATUSES
                       /\ \/ C25_AgeKnown(sr) /\ sr.hours_since >= followup_hours
                          \/ status \in {"pending vendor", "awaiting parts"}
                /\ ( /\ ~C25_AgeKnown(sr)
                     /\ status \in {"open", ""} )
                   => ~C25_Listed(sr, lastResult.follow_up_required)
                /\ ( /\ sr = T1
                     /\ followup_hours <= 48
                     /\ lastCall.arguments.sla_hours = 24 )
                   => /\ C25_Listed(sr, lastResult.open_issues)
                      /\ C25_Listed(sr, lastResult.escalations)
                      /\ C25_Listed(sr, lastResult.follow_up_required)

\* a batch classified with thresholds 8 and 24: the P1 ticket updated 48
\* hours ago needs follow-up, the open ticket whose timestamp does not
\* parse does not, the one that awaits parts since 2 hours does
C25_StaleUnknownAndWaiting ==
    /\ srs = <<T1, T7, T8>>
    /\ lastCall.name = "classify_tickets"
    /\ lastCall.arguments.followup_hours = 8
    /\ lastCall.arguments.sla_hours = 24
    /\ Ids(lastResult.follow_up_required) = {"SR1", "SR8"}
    /\ Ids(lastResult.open_issues) = {"SR1", "SR7", "SR8"}
    /\ Ids(lastResult.escalations) = {"SR1"}

\* the number of actions a classification calls for: one per escalation and
\* one per follow-up, or the one sentinel when there is neither
C26_ActionsCalledFor(classifications) ==
    LET n == Len(classifications.escalations)
             + Len(classifications.follow_up_required)
    IN IF n = 0 THEN 1 ELSE n

\* C26: in every Report returned by a run, the action list is the one
\* derived from the classifications in that same Report (its length is the
\* number of reported escalations plus the number of reported follow-ups,
\* or 1 sentinel when both are zero), for every order and repetition of
\* operations the backend proposed.
C26_ActionsDerivedFromReportedClassifications ==
    pc = "returned" =>
       /\ Len(returned.report.actions)
             = C26_ActionsCalledFor(returned.report.classifications)
       /\ srs # <<>> =>
             returned.report.actions
                = CreateActionList(returned.report.classifications).actions

\* C27: in a run where notification was not requested (notify flag false
\* and no destination address), the email notifier is never invoked at any
\* point of the run, whatever operations the backend proposes, and the
\* Report's email field is null.
C27_NoNotifierUnlessRequested ==
    (pc # "idle" /\ ~Requested) =>
       /\ emailsSent = 0
       /\ state.email = NoneV
       /\ pc = "returned" => returned.email = NoneV

\* C28: when a run returns, the document stored at the configured memory
\* path equals update applied to the memory snapshot loaded at the start of
\* that run (with that run's report, classifications, persistent sites and
\* stats); load_memory and save_memory operations proposed by the backend
\* during the loop, with any arguments, do not change what is finally
\* persisted at that path, and the counters are incremented exactly once
\* per run.
C28_PersistedIsUpdateOfLoaded ==
    pc = "returned" =>
       /\ file = UpdateMemory(loaded, returned.report,
                              returned.report.classifications,
                              returned.report.persistent_sites,
                              returned.report.stats)
       /\ file.stats.total_shifts = loaded.stats.total_shifts + 1
       /\ file.stats.total_srs = loaded.stats.total_srs + returned.report.stats.total
       /\ Len(file.past_shifts) = Len(loaded.past_shifts) + 1
       /\ updates = 1
       /\ returned.memory_updated

\* a run that started from a stored document returned after the backend
\* had saved another document over it and loaded that one into the run
\* state
C28_ReturnedAfterSaveAndLoad ==
    /\ pc = "returned"
    /\ srs = <<T1, T2>>
    /\ loaded = PriorMemory
    /\ state.memory = DEFAULT_MEMORY
    /\ file.stats.total_shifts = 3
    /\ file.recurring_sites["B"] = 2
    /\ file.recurring_sites["A"] = 1

====
